---------------------------- MODULE Spec2Model ----------------------------
(***************************************************************************)
(* Duplicate resolution and playlist synchronisation of spotify_tools.     *)
(*                                                                         *)
(* Strings are sequences of tokens (a word, a marker phrase, a space, a    *)
(* punctuation mark), so that normalisation is computed and not assumed.   *)
(* added_at timestamps are naturals ordered as the ISO-8601 strings they   *)
(* stand for, 0 standing for the empty string of a missing added_at.       *)
(***************************************************************************)
EXTENDS Integers, Sequences, FiniteSets, TLC

\* ------------------------------------------------------------------ bounds
MaxItems == 3
MaxTol == 2

\* the longest playlist served to iter_playlist_items alone, in pages
MaxPages == 11

\* the longest list of URIs handed to remove_by_uri, in full chunks
MaxChunks == 2

\* refresh exchanges attempted, and processes run one after the other
MaxExchanges == 3
MaxProcesses == 2

\* hours that pass while one client is in use
MaxHours == 2

\* --------------------------------------------------------------- constants
MaxRequests == 10
ChunkSize == 100
ExpiryMargin == 30
DefaultExpiresIn == 3600

\* ----------------------------------------------------------------- helpers
Abs(x) == IF x < 0 THEN -x ELSE x

Range(s) == {s[i] : i \in 1..Len(s)}

RECURSIVE Concat(_)
Concat(ss) == IF ss = <<>> THEN <<>> ELSE Head(ss) \o Concat(Tail(ss))

SeqsUpTo(S, n) == UNION {[1..k -> S] : k \in 0..n}

NoDup(s) == \A i, j \in 1..Len(s) : i # j => s[i] # s[j]

\* the orders in which a set can be iterated
Orderings(S) == {s \in [1..Cardinality(S) -> S] : Range(s) = S}

\* ---------------------------------------------------------- normalize.py
IsSpace(c) == c = " "

\* the string left as it came
NFKC_skipped(c) == c

\* unicodedata.normalize("NFKC", .): a full-width form becomes its ASCII form,
\* a kana followed by a combining sound mark becomes the composed kana
NFKC(c) ==
  CASE c = "FULLWIDTH Song" -> "Song"
    [] c = "HIRAGANA ka+COMBINING VOICED SOUND MARK" -> "HIRAGANA ga"
    [] OTHER -> c

casefold(c) ==
  CASE c = "Song" -> "song"
    [] c = "SONG" -> "song"
    [] c = "Other" -> "other"
    [] c = "Cafe+ACUTE" -> "cafe+acute"
    [] c = "A" -> "a"
    [] c = "B" -> "b"
    [] c = "(feat. Drake)" -> "(feat. drake)"
    [] c = "- Remastered 2012" -> "- remastered 2012"
    [] OTHER -> c

\* a phrase that _MARKER_RE matches as a whole
IsMarker(c) == c \in {"(feat. drake)", "- remastered 2012"}

\* the tokens made of code points U+3040..U+30FF, U+3400..U+4DBF, U+4E00..U+9FFF
CJKTokens ==
  {"HIRAGANA moshimo", "HIRAGANA anonatsu", "HIRAGANA ga",
   "HIRAGANA ka+COMBINING VOICED SOUND MARK"}

_has_cjk(s) == \E i \in 1..Len(s) : s[i] \in CJKTokens

\* NFKD, drop the combining characters whose own name holds LATIN (U+0363
\* COMBINING LATIN SMALL LETTER A and its like), NFC: an accent such as
\* COMBINING ACUTE ACCENT is kept and composed again
StripAccent(c) == IF c = "song+COMBINING LATIN SMALL LETTER A" THEN "song" ELSE c

\* _PUNCT_RE.sub(" ", .) on one token
PunctFold(c) ==
  CASE c = "-" -> <<" ">>
    [] c = "(feat. drake)" -> <<"(feat", " ", "drake)">>
    [] c = "- remastered 2012" -> <<" ", "remastered", " ", "2012">>
    [] OTHER -> <<c>>

AmpFold(c) == IF c = "&" THEN <<" ", "and", " ">> ELSE <<c>>

RECURSIVE LStrip(_)
LStrip(s) == IF s # <<>> /\ IsSpace(Head(s)) THEN LStrip(Tail(s)) ELSE s

RECURSIVE RStrip(_)
RStrip(s) ==
  IF s # <<>> /\ IsSpace(s[Len(s)]) THEN RStrip(SubSeq(s, 1, Len(s) - 1)) ELSE s

Strip(s) == RStrip(LStrip(s))

\* the markers left in the title
StripMarkersKept(s) == s

\* _MARKER_RE.sub("", .): a marker goes with the white space before it
RECURSIVE StripMarkers(_)
StripMarkers(s) ==
  IF s = <<>> THEN <<>>
  ELSE LET last == s[Len(s)]
           init == SubSeq(s, 1, Len(s) - 1)
       IN IF IsMarker(last) THEN StripMarkers(RStrip(init))
          ELSE Append(StripMarkers(init), last)

\* _WHITESPACE_RE.sub(" ", .)
RECURSIVE CollapseSpace(_)
CollapseSpace(s) ==
  IF Len(s) < 2 THEN s
  ELSE IF IsSpace(s[1]) /\ IsSpace(s[2]) THEN CollapseSpace(Tail(s))
       ELSE <<s[1]>> \o CollapseSpace(Tail(s))

normalize_title(title, strict) ==
  LET s0 == Strip([i \in 1..Len(title) |-> NFKC(title[i])])
      has_cjk == _has_cjk(s0)
      s1 == [i \in 1..Len(s0) |-> casefold(s0[i])]
      s2 == IF strict THEN s1 ELSE StripMarkers(s1)
      s3 == IF has_cjk THEN Concat([i \in 1..Len(s2) |-> PunctFold(s2[i])])
            ELSE LET a == [i \in 1..Len(s2) |-> StripAccent(s2[i])]
                     p == Concat([i \in 1..Len(a) |-> PunctFold(a[i])])
                 IN Concat([i \in 1..Len(p) |-> AmpFold(p[i])])
  IN IF s0 = <<>> THEN <<>> ELSE Strip(CollapseSpace(s3))

\* position of a token in the code point order of the strings it stands for
TokRank(c) ==
  CASE c = " " -> 1
    [] c = "&" -> 2
    [] c = "(feat" -> 3
    [] c = "(feat. drake)" -> 4
    [] c = "- remastered 2012" -> 5
    [] c = "2012" -> 6
    [] c = "a" -> 7
    [] c = "and" -> 8
    [] c = "b" -> 9
    [] c = "cafe" -> 10
    [] c = "drake)" -> 11
    [] c = "other" -> 12
    [] c = "remastered" -> 13
    [] c = "song" -> 14
    [] c = "HIRAGANA anonatsu" -> 15
    [] c = "HIRAGANA moshimo" -> 16
    [] c = "cafe+acute" -> 18
    [] c = "HIRAGANA ga" -> 19
    [] OTHER -> 17

RECURSIVE StrLess(_, _)
StrLess(a, b) ==
  IF b = <<>> THEN FALSE
  ELSE IF a = <<>> THEN TRUE
  ELSE IF TokRank(Head(a)) # TokRank(Head(b)) THEN TokRank(Head(a)) < TokRank(Head(b))
  ELSE StrLess(Tail(a), Tail(b))

\* sorted(norm)
RECURSIVE SortedStrs(_)
SortedStrs(S) ==
  IF S = {} THEN <<>>
  ELSE LET m == CHOOSE x \in S : \A y \in S \ {x} : StrLess(x, y)
       IN <<m>> \o SortedStrs(S \ {m})

\* the names normalised one by one, in the order and number they came in
normalize_artists_listed(artists) ==
  SelectSeq([i \in 1..Len(artists) |-> normalize_title(artists[i], TRUE)],
            LAMBDA a : a # <<>>)

\* set of the normalised names, empty ones dropped, sorted
normalize_artists(artists) ==
  SortedStrs({normalize_title(artists[i], TRUE) : i \in 1..Len(artists)} \ {<<>>})

\* --------------------------------------------------------- duplicates.py
\* a raw playlist item of the API and the strings the fixtures use
Item(added, present, typ, name, artists, uri, ms) ==
  [added_at |-> added, track_present |-> present, type |-> typ, name |-> name,
   artists |-> artists, uri |-> uri, duration_ms |-> ms]

Song == <<"Song">>
SongFeat == <<"Song", " ", "(feat. Drake)", " ", "- Remastered 2012">>
ArtistA == <<"A">>

Catalogue ==
  { Item(2, TRUE, "track", Song, <<ArtistA>>, "u1", 500),
    Item(1, TRUE, "track", Song, <<ArtistA>>, "u2", 1500),
    Item(3, TRUE, "track", Song, <<ArtistA>>, "u3", 3000),
    Item(3, TRUE, "track", SongFeat, <<ArtistA>>, "u1", 500),
    Item(1, TRUE, "episode", Song, <<ArtistA>>, "e1", 500),
    Item(0, FALSE, "", <<>>, <<>>, "", 0) }

Track(name, artists, uri, ms, added, pos) ==
  [name |-> name, artists |-> artists, uri |-> uri, duration_ms |-> ms,
   added_at |-> added, playlist_idx |-> pos]

\* int(round(ms / 1000.0)): Python rounds a half to the even neighbour
_round_seconds(ms) ==
  LET q == ms \div 1000
      r == ms % 1000
  IN IF r < 500 THEN q
     ELSE IF r > 500 THEN q + 1
     ELSE IF q % 2 = 0 THEN q ELSE q + 1

make_key(t, strict) ==
  [title |-> normalize_title(t.name, strict),
   artists |-> normalize_artists(t.artists),
   sec |-> _round_seconds(t.duration_ms)]

\* the tolerance taken as an exclusive bound
within_tolerance_exclusive(sec_a, sec_b, tol) == Abs(sec_a - sec_b) < tol

within_tolerance(sec_a, sec_b, tol) == Abs(sec_a - sec_b) <= tol

\* the test with the tolerance left out: equal seconds only
KeyMatchesExact(k, k2, tol) ==
  k2.title = k.title /\ k2.artists = k.artists /\ k.sec = k2.sec

\* the test both scans make of a key against an already placed key
KeyMatches(k, k2, tol) ==
  k2.title = k.title /\ k2.artists = k.artists /\ within_tolerance(k.sec, k2.sec, tol)

\* the type of the track left unread
IsTrackItemAnyType(it) == it.track_present

\* the loop that reads the items: what is not a track is skipped
IsTrackItem(it) == it.track_present /\ it.type = "track"

RECURSIVE ParseTracks(_, _)
ParseTracks(its, n) ==
  IF n = 0 THEN <<>>
  ELSE LET it == its[n]
           rest == ParseTracks(its, n - 1)
       IN IF IsTrackItem(it)
          THEN Append(rest, Track(it.name, it.artists, it.uri, it.duration_ms,
                                  it.added_at, n - 1))
          ELSE rest

TracksOf(its) == ParseTracks(its, Len(its))

\* buckets.setdefault(key, []).append(track), a dict in insertion order
RECURSIVE Buckets(_, _, _)
Buckets(tr, strict, n) ==
  IF n = 0 THEN <<>>
  ELSE LET b == Buckets(tr, strict, n - 1)
           k == make_key(tr[n], strict)
           at == {i \in 1..Len(b) : b[i].key = k}
       IN IF at = {} THEN Append(b, [key |-> k, tracks |-> <<tr[n]>>])
          ELSE LET i == CHOOSE j \in at : TRUE
               IN [b EXCEPT ![i].tracks = Append(@, tr[n])]

\* the scan without its break: the last placed key that matches
LastMatch(keys, k, tol) ==
  LET m == {i \in 1..Len(keys) : KeyMatches(k, keys[i], tol)}
  IN IF m = {} THEN 0 ELSE CHOOSE i \in m : \A j \in m : i >= j

\* index of the first placed key the key matches, 0 for none
FirstMatch(keys, k, tol) ==
  LET m == {i \in 1..Len(keys) : KeyMatches(k, keys[i], tol)}
  IN IF m = {} THEN 0 ELSE CHOOSE i \in m : \A j \in m : i <= j

\* the buckets left unmerged
MergedNever(b, tol, n) == SubSeq(b, 1, n)

\* the tolerance pass over the buckets
RECURSIVE Merged(_, _, _)
Merged(b, tol, n) ==
  IF n = 0 THEN <<>>
  ELSE LET m == Merged(b, tol, n - 1)
           e == FirstMatch([i \in 1..Len(m) |-> m[i].key], b[n].key, tol)
       IN IF e = 0 THEN Append(m, b[n])
          ELSE [m EXCEPT ![e].tracks = @ \o b[n].tracks]

\* the group left in the order it was collected
SortByAddedAtSkipped(g) == g

\* list.sort(key=added_at): stable, ascending
RECURSIVE SortByAddedAt(_)
SortByAddedAt(g) ==
  IF g = <<>> THEN <<>>
  ELSE LET n == Len(g)
           init == SortByAddedAt(SubSeq(g, 1, n - 1))
           k == Cardinality({i \in 1..Len(init) : init[i].added_at <= g[n].added_at})
       IN SubSeq(init, 1, k) \o <<g[n]>> \o SubSeq(init, k + 1, Len(init))

IsDuplicateGroup(g) == Len(g.tracks) > 1

RECURSIVE OutGroups(_, _)
OutGroups(m, n) ==
  IF n = 0 THEN <<>>
  ELSE LET rest == OutGroups(m, n - 1)
       IN IF IsDuplicateGroup(m[n])
          THEN Append(rest, [key |-> m[n].key, tracks |-> SortByAddedAt(m[n].tracks)])
          ELSE rest

group_duplicates(its, strict, tol) ==
  LET tr == TracksOf(its)
      b == Buckets(tr, strict, Len(tr))
      m == Merged(b, tol, Len(b))
  IN OutGroups(m, Len(m))

\* build_delete_payload: every track of a group but tracks[0]
build_delete_payload(gs) ==
  Concat([i \in 1..Len(gs) |-> [j \in 1..(Len(gs[i].tracks) - 1) |-> gs[i].tracks[j + 1].uri]])

\* compute_keep_and_delete_uris, first loop: one track against the representatives
NoReps == [first_keys |-> <<>>, uris_by_key |-> <<>>, keeper_by_key |-> <<>>, idx_of |-> <<>>]

\* a joining track moves the representative's key to its own
ScanOneReanchored(st, t, strict, tol) ==
  LET k == make_key(t, strict)
      idx == FirstMatch(st.first_keys, k, tol)
  IN IF idx = 0
     THEN [first_keys |-> Append(st.first_keys, k),
           uris_by_key |-> Append(st.uris_by_key, {t.uri}),
           keeper_by_key |-> Append(st.keeper_by_key, t.uri),
           idx_of |-> Append(st.idx_of, Len(st.first_keys) + 1)]
     ELSE [st EXCEPT !.first_keys[idx] = k,
                     !.uris_by_key[idx] = @ \cup {t.uri},
                     !.idx_of = Append(@, idx)]

\* a new representative accumulates the URIs of the later tracks only
ScanOneKeeperLeftOut(st, t, strict, tol) ==
  LET k == make_key(t, strict)
      idx == FirstMatch(st.first_keys, k, tol)
  IN IF idx = 0
     THEN [first_keys |-> Append(st.first_keys, k),
           uris_by_key |-> Append(st.uris_by_key, {}),
           keeper_by_key |-> Append(st.keeper_by_key, t.uri),
           idx_of |-> Append(st.idx_of, Len(st.first_keys) + 1)]
     ELSE [st EXCEPT !.uris_by_key[idx] = @ \cup {t.uri},
                     !.idx_of = Append(@, idx)]

ScanOne(st, t, strict, tol) ==
  LET k == make_key(t, strict)
      idx == FirstMatch(st.first_keys, k, tol)
  IN IF idx = 0
     THEN [first_keys |-> Append(st.first_keys, k),
           uris_by_key |-> Append(st.uris_by_key, {t.uri}),
           keeper_by_key |-> Append(st.keeper_by_key, t.uri),
           idx_of |-> Append(st.idx_of, Len(st.first_keys) + 1)]
     ELSE [st EXCEPT !.uris_by_key[idx] = @ \cup {t.uri},
                     !.idx_of = Append(@, idx)]

RECURSIVE ScanAll(_, _, _, _)
ScanAll(tr, strict, tol, n) ==
  IF n = 0 THEN NoReps ELSE ScanOne(ScanAll(tr, strict, tol, n - 1), tr[n], strict, tol)

\* second loop: occurrences per representative, counted against the final keys
CountsOf(tr, keys, strict, tol) ==
  [i \in 1..Len(keys) |->
     Cardinality({n \in 1..Len(tr) : FirstMatch(keys, make_key(tr[n], strict), tol) = i})]

\* every representative taken as duplicated
IsDuplicatedFromOne(c) == c > 0

IsDuplicated(c) == c > 1

RECURSIVE KeepOf(_, _, _)
KeepOf(cnt, keepers, n) ==
  IF n = 0 THEN <<>>
  ELSE IF IsDuplicated(cnt[n]) THEN Append(KeepOf(cnt, keepers, n - 1), keepers[n])
       ELSE KeepOf(cnt, keepers, n - 1)

DeleteSetOf(cnt, uris) == UNION {uris[i] : i \in {j \in 1..Len(cnt) : IsDuplicated(cnt[j])}}

\* the delete list takes the iteration order of a set of strings, which the
\* interpreter's string hashing decides
DeleteOrders(S) == Orderings(S)

\* ------------------------------------------------------------- client.py
\* the playlist is served in pages of PageSize items
PageSize == 1

ClientCatalogue ==
  { Item(2, TRUE, "track", Song, <<ArtistA>>, "u1", 500),
    Item(1, TRUE, "track", Song, <<ArtistA>>, "u2", 1500),
    Item(3, TRUE, "track", Song, <<ArtistA>>, "u3", 3000),
    Item(1, TRUE, "episode", Song, <<ArtistA>>, "e1", 500) }

\* the page a URL stands for: its items and the page its next link leads to,
\* 0 when the link is absent
PageItems(pl, u) ==
  SubSeq(pl, (u - 1) * PageSize + 1, IF u * PageSize < Len(pl) THEN u * PageSize ELSE Len(pl))

PageNext(pl, u) == IF u * PageSize < Len(pl) THEN u + 1 ELSE 0

\* the while condition of iter_playlist_items, read after a request
LoopGoesOn(rc) == rc < MaxRequests

\* remove_by_uri: the URIs as they are given
UniqueSkipped(uris) == uris

\* remove_by_uri: the non-empty URIs, each once, in input order
Unique(uris) ==
  LET at == SelectSeq([i \in 1..Len(uris) |-> i],
                      LAMBDA i : uris[i] # "" /\ \A j \in 1..(i - 1) : uris[j] # uris[i])
  IN [r \in 1..Len(at) |-> uris[at[r]]]

Chunk(uris, i) == SubSeq(uris, i + 1, IF i + ChunkSize < Len(uris) THEN i + ChunkSize ELSE Len(uris))

\* a remote that drops the first item of each named URI only
RemoteRemoveFirst(pl, us) ==
  LET at == {n \in 1..Len(pl) :
               /\ pl[n].track_present /\ pl[n].uri \in us
               /\ \A m \in 1..(n - 1) : pl[m].uri # pl[n].uri}
      idx == SelectSeq([n \in 1..Len(pl) |-> n], LAMBDA n : n \notin at)
  IN [j \in 1..Len(idx) |-> pl[idx[j]]]

\* the remote drops every item whose URI is named, wherever it stands
RemoteRemove(pl, us) ==
  SelectSeq(pl, LAMBDA it : ~(it.track_present /\ it.uri \in us))

\* the remote appends the tracks the URIs name, stamped with the time of the call
AddedNow ==
  LET stamps == {c.added_at : c \in ClientCatalogue}
  IN 1 + (CHOOSE m \in stamps : \A x \in stamps : x <= m)

\* the track a URI names
TrackOfUri(u) ==
  IF \E c \in ClientCatalogue : c.uri = u THEN CHOOSE c \in ClientCatalogue : c.uri = u
  ELSE Item(0, TRUE, "track", Song, <<ArtistA>>, u, 500)

RemoteAdd(pl, uris) ==
  pl \o [i \in 1..Len(uris) |-> [TrackOfUri(uris[i]) EXCEPT !.added_at = AddedNow]]

\* every item counted, whatever it is
OriginalCountOfItems(its) == Len(its)

\* original_count of clear_dupes_then_readd
OriginalCount(its) == Cardinality({n \in 1..Len(its) : its[n].track_present /\ its[n].type = "track"})

\* ------------------------------------------------------------------ state
VARIABLES items, strict, tol_secs, pc, keep_uris, delete_uris,
          pos, reps, counts, groups, grouped,
          remote, snapshot, url, retry_counter, rm_i, calls, result,
          last, tracks,
          _TOKEN_CACHE, token_file, now, process, exchanges, returned,
          _app_token, credentials, app_exchanges

resolverVars == <<pos, reps, counts, groups, grouped>>

clientVars == <<remote, snapshot, url, retry_counter, rm_i, calls, result>>

\* the last page request of iter_playlist_items, and the tracks parsed so far
scanVars == <<last, tracks>>

tokenVars == <<_TOKEN_CACHE, token_file, now, process, exchanges, returned>>

\* the client's app token, whether it has a client id and secret, and the
\* client-credentials exchanges it has sent
appVars == <<_app_token, credentials, app_exchanges>>

vars == <<items, strict, tol_secs, pc, keep_uris, delete_uris, resolverVars, clientVars,
          scanVars, tokenVars, appVars>>

NoResult == [original |-> 0, kept |-> 0, removed |-> 0]

\* no page requested yet
NoRequest == [url |-> 0, status |-> 0, slept |-> 0, limited |-> 0]

\* _TOKEN_CACHE = {"access": None, "exp": 0}, None being 0
EmptyCache == [access |-> 0, exp |-> 0]

NoFile == [exists |-> FALSE, refresh_token |-> 0]

NoReturn == [kind |-> "none", token |-> 0, at |-> 0, exchanged |-> 0]

\* the parts of the state a specification leaves alone
ScanIdle == last = NoRequest /\ tracks = <<>>

AppIdle == _app_token = 0 /\ credentials = TRUE /\ app_exchanges = <<>>

TokenIdle ==
  /\ AppIdle
  /\ _TOKEN_CACHE = EmptyCache
  /\ token_file = NoFile
  /\ now = 0
  /\ process = 0
  /\ exchanges = <<>>
  /\ returned = NoReturn

Init ==
  /\ items \in SeqsUpTo(Catalogue, MaxItems)
  /\ strict \in BOOLEAN
  /\ tol_secs \in 0..MaxTol
  /\ pc = "scan"
  /\ pos = 0
  /\ reps = NoReps
  /\ counts = <<>>
  /\ keep_uris = <<>>
  /\ delete_uris = <<>>
  /\ groups = <<>>
  /\ grouped = FALSE
  /\ remote = <<>>
  /\ snapshot = <<>>
  /\ url = 0
  /\ retry_counter = 0
  /\ rm_i = 0
  /\ calls = <<>>
  /\ result = NoResult
  /\ ScanIdle
  /\ TokenIdle

\* cmd_delete: group_duplicates is called first and compute_keep_and_delete_uris
\* after it, on the same items and strict flag; the tolerance is one value for
\* both, as it is when --tol-secs is left at its default (cmd_delete gives
\* group_duplicates DEFAULT_TOLERANCE and the client args.tol_secs)
GroupDuplicates ==
  /\ ~grouped
  /\ groups' = group_duplicates(items, strict, tol_secs)
  /\ grouped' = TRUE
  /\ UNCHANGED <<items, strict, tol_secs, pc, pos, reps, counts, keep_uris, delete_uris>>
  /\ UNCHANGED clientVars
  /\ UNCHANGED <<scanVars, tokenVars, appVars>>

\* compute_keep_and_delete_uris: one iteration of the loop over the tracks
ScanTrack ==
  /\ grouped
  /\ pc = "scan"
  /\ pos < Len(TracksOf(items))
  /\ reps' = ScanOne(reps, TracksOf(items)[pos + 1], strict, tol_secs)
  /\ pos' = pos + 1
  /\ UNCHANGED <<items, strict, tol_secs, pc, counts, keep_uris, delete_uris, groups, grouped>>
  /\ UNCHANGED clientVars
  /\ UNCHANGED <<scanVars, tokenVars, appVars>>

\* compute_keep_and_delete_uris: the counting loop and the two output lists
CountAndBuild ==
  /\ grouped
  /\ pc = "scan"
  /\ pos = Len(TracksOf(items))
  /\ LET cnt == CountsOf(TracksOf(items), reps.first_keys, strict, tol_secs)
     IN /\ counts' = cnt
        /\ keep_uris' = KeepOf(cnt, reps.keeper_by_key, Len(cnt))
        /\ delete_uris' \in DeleteOrders(DeleteSetOf(cnt, reps.uris_by_key))
  /\ pc' = "done"
  /\ UNCHANGED <<items, strict, tol_secs, pos, reps, groups, grouped>>
  /\ UNCHANGED clientVars
  /\ UNCHANGED <<scanVars, tokenVars, appVars>>

Next == GroupDuplicates \/ ScanTrack \/ CountAndBuild

Spec == Init /\ [][Next]_vars

\* ------------------------------------------- the playlists of the tests
\* titles of the fixtures: a plain title, the title with one marker or with
\* both, two CJK titles, and one kana title in composed and decomposed form
SongFeaturing == <<"Song", " ", "(feat. Drake)">>
SongRemastered == <<"Song", " ", "- Remastered 2012">>
Moshimo == <<"HIRAGANA moshimo">>
Anonatsu == <<"HIRAGANA anonatsu">>
Ga == <<"HIRAGANA ga">>
GaDecomposed == <<"HIRAGANA ka+COMBINING VOICED SOUND MARK">>

PairTitles == {Song, SongFeaturing, SongRemastered, SongFeat, Moshimo, Anonatsu, Ga, GaDecomposed}

\* ["A", "B"], ["B", "A"], a list with a repetition, and a different set
ArtistB == <<"B">>

PairArtists ==
  {<<ArtistA, ArtistB>>, <<ArtistB, ArtistA>>, <<ArtistA, ArtistA, ArtistB>>, <<ArtistA>>}

\* 214 s, 215 s, 219 s and a half second that rounds to the even 216
PairDurations == {214000, 215000, 219000, 215500}

\* mk_item(title, artists, duration_ms, added, uri)
mk_item(title, artists, duration_ms, added, uri) ==
  Item(added, TRUE, "track", title, artists, uri, duration_ms)

\* two tracks, and in the CJK test a third of another CJK title
InitPairs ==
  /\ \E t1 \in {Song, SongFeaturing, Moshimo, GaDecomposed}, t2 \in PairTitles, a1 \in {<<ArtistA, ArtistB>>, <<ArtistA>>}, a2 \in PairArtists,
        d2 \in PairDurations, third \in BOOLEAN :
        items = <<mk_item(t1, a1, 214000, 1, "u1"), mk_item(t2, a2, d2, 2, "u2")>>
                \o (IF third THEN <<mk_item(Anonatsu, <<ArtistA, ArtistB>>, 214000, 3, "u3")>>
                    ELSE <<>>)
  /\ strict \in BOOLEAN
  /\ tol_secs \in 0..MaxTol
  /\ pc = "scan"
  /\ pos = 0
  /\ reps = NoReps
  /\ counts = <<>>
  /\ keep_uris = <<>>
  /\ delete_uris = <<>>
  /\ groups = <<>>
  /\ grouped = FALSE
  /\ remote = <<>>
  /\ snapshot = <<>>
  /\ url = 0
  /\ retry_counter = 0
  /\ rm_i = 0
  /\ calls = <<>>
  /\ result = NoResult
  /\ ScanIdle
  /\ TokenIdle

SpecPairs == InitPairs /\ [][Next]_vars

\* ---------------------------------------- clear_dupes_then_readd, stepwise
InitClient ==
  /\ remote \in SeqsUpTo(ClientCatalogue, MaxItems)
  /\ snapshot = remote
  /\ strict \in BOOLEAN
  /\ tol_secs \in 0..MaxTol
  /\ pc = "read"
  /\ items = <<>>
  /\ url = 1
  /\ retry_counter = 0
  /\ keep_uris = <<>>
  /\ delete_uris = <<>>
  /\ rm_i = 0
  /\ calls = <<>>
  /\ result = NoResult
  /\ ScanIdle
  /\ TokenIdle
  /\ pos = 0
  /\ reps = NoReps
  /\ counts = <<>>
  /\ groups = <<>>
  /\ grouped = FALSE
  /\ ScanIdle
  /\ TokenIdle

\* a mutation request sent to the API; calls lists them in the order sent,
\* the page requests being counted by retry_counter
Call(op, arg) == [op |-> op, arg |-> arg]

\* iter_playlist_items: a request answered 200; its items are yielded and the
\* next link followed, unless the link is absent or the loop condition fails
GetPageOk ==
  /\ pc = "read"
  /\ retry_counter' = retry_counter + 1
  /\ items' = items \o PageItems(remote, url)
  /\ url' = PageNext(remote, url)
  /\ pc' = IF PageNext(remote, url) # 0 /\ LoopGoesOn(retry_counter + 1)
           THEN "read" ELSE "resolve"
  /\ UNCHANGED <<strict, tol_secs, keep_uris, delete_uris, remote, snapshot, rm_i, calls,
                 result>>
  /\ UNCHANGED resolverVars
  /\ UNCHANGED <<scanVars, tokenVars, appVars>>

\* a request answered 429: sleep, then the same URL again while the loop goes on
GetPageRateLimited ==
  /\ pc = "read"
  /\ retry_counter' = retry_counter + 1
  /\ pc' = IF LoopGoesOn(retry_counter + 1) THEN "read" ELSE "resolve"
  /\ UNCHANGED <<items, url, strict, tol_secs, keep_uris, delete_uris, remote, snapshot,
                 rm_i, calls, result>>
  /\ UNCHANGED resolverVars
  /\ UNCHANGED <<scanVars, tokenVars, appVars>>

\* a request answered with another error status: raise_for_status raises
GetPageFails ==
  /\ pc = "read"
  /\ retry_counter' = retry_counter + 1
  /\ pc' = "read_failed"
  /\ UNCHANGED <<items, url, strict, tol_secs, keep_uris, delete_uris, remote, snapshot,
                 rm_i, calls, result>>
  /\ UNCHANGED resolverVars
  /\ UNCHANGED <<scanVars, tokenVars, appVars>>

\* original_count and compute_keep_and_delete_uris over the items read
Resolve ==
  /\ pc = "resolve"
  /\ LET tr == TracksOf(items)
         st == ScanAll(tr, strict, tol_secs, Len(tr))
         cnt == CountsOf(tr, st.first_keys, strict, tol_secs)
         keep == KeepOf(cnt, st.keeper_by_key, Len(cnt))
         del == DeleteSetOf(cnt, st.uris_by_key)
     IN /\ keep_uris' = keep
        /\ delete_uris' \in DeleteOrders(del)
        /\ result' = [original |-> OriginalCount(items), kept |-> Len(keep),
                      removed |-> Cardinality(del)]
        /\ pc' = IF del # {} THEN "remove" ELSE IF keep # <<>> THEN "add" ELSE "returned"
  /\ UNCHANGED <<items, strict, tol_secs, remote, snapshot, url, retry_counter, rm_i, calls>>
  /\ UNCHANGED resolverVars
  /\ UNCHANGED <<scanVars, tokenVars, appVars>>

\* remove_by_uri: one chunk deleted
RemoveChunkOk ==
  /\ pc = "remove"
  /\ rm_i < Len(Unique(delete_uris))
  /\ LET chunk == Chunk(Unique(delete_uris), rm_i)
     IN /\ calls' = Append(calls, Call("DELETE", chunk))
        /\ remote' = RemoteRemove(remote, Range(chunk))
  /\ rm_i' = rm_i + ChunkSize
  /\ UNCHANGED <<items, strict, tol_secs, pc, keep_uris, delete_uris, snapshot, url,
                 retry_counter, result>>
  /\ UNCHANGED resolverVars
  /\ UNCHANGED <<scanVars, tokenVars, appVars>>

\* the failure of a chunk undone: the chunks removed before it are put back
RemoveChunkFailsRolledBack ==
  /\ pc = "remove"
  /\ rm_i < Len(Unique(delete_uris))
  /\ calls' = Append(calls, Call("DELETE", Chunk(Unique(delete_uris), rm_i)))
  /\ remote' = snapshot
  /\ pc' = "remove_failed"
  /\ UNCHANGED <<items, strict, tol_secs, keep_uris, delete_uris, snapshot, url,
                 retry_counter, rm_i, result>>
  /\ UNCHANGED resolverVars
  /\ UNCHANGED <<scanVars, tokenVars, appVars>>

\* remove_by_uri: a chunk's request fails and raise_for_status raises
RemoveChunkFails ==
  /\ pc = "remove"
  /\ rm_i < Len(Unique(delete_uris))
  /\ calls' = Append(calls, Call("DELETE", Chunk(Unique(delete_uris), rm_i)))
  /\ pc' = "remove_failed"
  /\ UNCHANGED <<items, strict, tol_secs, keep_uris, delete_uris, remote, snapshot, url,
                 retry_counter, rm_i, result>>
  /\ UNCHANGED resolverVars
  /\ UNCHANGED <<scanVars, tokenVars, appVars>>

\* remove_by_uri returns once no chunk is left
RemoveReturns ==
  /\ pc = "remove"
  /\ rm_i >= Len(Unique(delete_uris))
  /\ pc' = IF keep_uris # <<>> THEN "add" ELSE "returned"
  /\ UNCHANGED <<items, strict, tol_secs, keep_uris, delete_uris, remote, snapshot, url,
                 retry_counter, rm_i, calls, result>>
  /\ UNCHANGED resolverVars
  /\ UNCHANGED <<scanVars, tokenVars, appVars>>

\* add_items(playlist_id, keep_uris) answered 2xx
AddItemsOk ==
  /\ pc = "add"
  /\ Len(keep_uris) <= ChunkSize
  /\ calls' = Append(calls, Call("POST", keep_uris))
  /\ remote' = RemoteAdd(remote, keep_uris)
  /\ pc' = "returned"
  /\ UNCHANGED <<items, strict, tol_secs, keep_uris, delete_uris, snapshot, url,
                 retry_counter, rm_i, result>>
  /\ UNCHANGED resolverVars
  /\ UNCHANGED <<scanVars, tokenVars, appVars>>

\* add_items raises: ValueError before any request for more than 100 URIs,
\* else the request fails
AddItemsFails ==
  /\ pc = "add"
  /\ calls' = IF Len(keep_uris) > ChunkSize THEN calls
              ELSE Append(calls, Call("POST", keep_uris))
  /\ pc' = "add_failed"
  /\ UNCHANGED <<items, strict, tol_secs, keep_uris, delete_uris, remote, snapshot, url,
                 retry_counter, rm_i, result>>
  /\ UNCHANGED resolverVars
  /\ UNCHANGED <<scanVars, tokenVars, appVars>>

NextClient ==
  \/ GetPageOk \/ GetPageRateLimited \/ GetPageFails \/ Resolve
  \/ RemoveChunkOk \/ RemoveChunkFails \/ RemoveReturns \/ AddItemsOk \/ AddItemsFails

SpecClient == InitClient /\ [][NextClient]_vars

\* ------------------------------------------------ iter_playlist_items, alone
\* the n-th track of a playlist of distinct tracks
TrackNo(n) == Item(n, TRUE, "track", Song, <<ArtistA>>, "u" \o ToString(n), 500)

Numbered(n) == [i \in 1..n |-> TrackNo(i)]

\* the Retry-After header of a 429 response, 0 when it is absent
RetryHeaders == {0, 2}

\* int(r.headers.get("Retry-After", "1"))
retry_timer(header) == IF header = 0 THEN 1 ELSE header

\* the statuses of the responses that are neither 200 nor 429
ErrorStatuses == {401, 500}

\* raise_for_status that lets every status through
raise_for_status_never(status) == FALSE

\* requests.Response.raise_for_status: raises on 4xx and 5xx
raise_for_status(status) == 400 <= status /\ status < 600

\* r.json() of a page: its items and next link; an error body has neither
PageBody(pl, u, status) ==
  IF status = 200 THEN [items |-> PageItems(pl, u), next |-> PageNext(pl, u)]
  ELSE [items |-> <<>>, next |-> 0]

InitPages ==
  /\ remote \in {Numbered(n) : n \in 0..(MaxPages * PageSize)}
  /\ snapshot = remote
  /\ pc = "read"
  /\ items = <<>>
  /\ url = 1
  /\ retry_counter = 0
  /\ last = NoRequest
  /\ tracks = <<>>
  /\ strict = FALSE
  /\ tol_secs = 0
  /\ keep_uris = <<>>
  /\ delete_uris = <<>>
  /\ rm_i = 0
  /\ calls = <<>>
  /\ result = NoResult
  /\ pos = 0
  /\ reps = NoReps
  /\ counts = <<>>
  /\ groups = <<>>
  /\ grouped = FALSE
  /\ TokenIdle

\* one pass of the loop for a response that is not a 429: raise_for_status,
\* then the items are yielded and the next link becomes the URL
PageAnswered(status) ==
  /\ pc = "read"
  /\ retry_counter' = retry_counter + 1
  /\ last' = [url |-> url, status |-> status, slept |-> 0, limited |-> last.limited]
  /\ IF raise_for_status(status)
     THEN pc' = "failed" /\ UNCHANGED <<items, url>>
     ELSE LET data == PageBody(remote, url, status)
          IN /\ items' = items \o data.items
             /\ url' = data.next
             /\ pc' = IF data.next # 0 /\ LoopGoesOn(retry_counter + 1)
                      THEN "read" ELSE "ended"
  /\ UNCHANGED <<strict, tol_secs, keep_uris, delete_uris, remote, snapshot, rm_i, calls,
                 result, tracks>>
  /\ UNCHANGED <<resolverVars, tokenVars, appVars>>

PageOk == PageAnswered(200)

PageFails == \E status \in ErrorStatuses : PageAnswered(status)

\* one pass of the loop for a 429: sleep, then continue with the same URL
PageRateLimited ==
  /\ pc = "read"
  /\ retry_counter' = retry_counter + 1
  /\ \E header \in RetryHeaders :
       last' = [url |-> url, status |-> 429, slept |-> retry_timer(header),
                limited |-> last.limited + 1]
  /\ pc' = IF LoopGoesOn(retry_counter + 1) THEN "read" ELSE "ended"
  /\ UNCHANGED <<items, url, strict, tol_secs, keep_uris, delete_uris, remote, snapshot,
                 rm_i, calls, result, tracks>>
  /\ UNCHANGED <<resolverVars, tokenVars, appVars>>

NextPages == PageOk \/ PageRateLimited \/ PageFails

SpecPages == InitPages /\ [][NextPages]_vars

\* ------------------------- clear_dupes_then_readd, from remove_by_uri onwards
\* the lengths about the chunk boundaries
WriteSizes ==
  {n \in 0..(MaxChunks * ChunkSize + 1) :
     \E c \in 0..MaxChunks : n - c * ChunkSize \in {-1, 0, 1}}

Uris(n) == [i \in 1..n |-> TrackNo(i).uri]

\* n URIs as they are, or after an empty URI and with the first one repeated
UriLists(n) ==
  {Uris(n)} \cup (IF n > 0 THEN {<<"">> \o Uris(n) \o <<Uris(n)[1]>>} ELSE {})

\* one keeper per duplicated key: as many as one add call takes, or one more
KeepSizes(n) == IF n = 0 THEN {0} ELSE {m \in {1, ChunkSize, ChunkSize + 1} : m <= n}

InitWrite ==
  /\ \E n \in WriteSizes :
       /\ delete_uris \in UriLists(n)
       /\ keep_uris \in {SubSeq(Uris(n), 1, m) : m \in KeepSizes(n)}
       /\ remote = Numbered(n + 1) \o (IF n > 0 THEN <<TrackNo(1)>> ELSE <<>>)
  /\ snapshot = remote
  /\ pc = IF delete_uris # <<>> THEN "remove"
          ELSE IF keep_uris # <<>> THEN "add" ELSE "returned"
  /\ items = <<>>
  /\ url = 0
  /\ retry_counter = 0
  /\ strict = FALSE
  /\ tol_secs = 0
  /\ rm_i = 0
  /\ calls = <<>>
  /\ result = NoResult
  /\ pos = 0
  /\ reps = NoReps
  /\ counts = <<>>
  /\ groups = <<>>
  /\ grouped = FALSE
  /\ ScanIdle
  /\ TokenIdle

NextWrite ==
  RemoveChunkOk \/ RemoveChunkFails \/ RemoveReturns \/ AddItemsOk \/ AddItemsFails

SpecWrite == InitWrite /\ [][NextWrite]_vars

\* ------------------------------------------- the loop that reads raw records
\* a key of a raw record holds a value, holds null, or is missing
FieldStates == {"value", "null", "missing"}

RawItems ==
  [added_at : FieldStates, track : FieldStates, name : FieldStates, artists : FieldStates,
   artist_name : FieldStates, album : FieldStates, uri : FieldStates,
   duration_ms : FieldStates]

WholeRecord == CHOOSE raw \in RawItems : \A f \in DOMAIN raw : raw[f] = "value"

\* d.get(key) or default
GetOr(state, value, default) == IF state = "value" THEN value ELSE default

\* item.get("track") or {}, then "if not track ...: continue"
IsSkipped(raw) == raw.track # "value"

\* [... for a in track.get("artists", [])]: .get gives None for a key that
\* holds null, and iterating None raises TypeError
ParseRaises(raw) == ~IsSkipped(raw) /\ raw.artists = "null"

\* the Track of a record; a.get("name", "") gives None for a name that holds
\* null, which normalize_title reads as the empty string
ParseRecord(raw, n) ==
  Track(GetOr(raw.name, Song, <<>>),
        IF raw.artists = "value" THEN <<GetOr(raw.artist_name, ArtistA, <<>>)>> ELSE <<>>,
        GetOr(raw.uri, "u1", ""),
        GetOr(raw.duration_ms, 500, 0),
        GetOr(raw.added_at, 1, 0),
        n)

InitRecords ==
  /\ \E raw \in RawItems : items = <<WholeRecord, raw, WholeRecord>>
  /\ strict = FALSE
  /\ tol_secs = 0
  /\ pc = "parse"
  /\ pos = 0
  /\ tracks = <<>>
  /\ last = NoRequest
  /\ reps = NoReps
  /\ counts = <<>>
  /\ keep_uris = <<>>
  /\ delete_uris = <<>>
  /\ groups = <<>>
  /\ grouped = FALSE
  /\ remote = <<>>
  /\ snapshot = <<>>
  /\ url = 0
  /\ retry_counter = 0
  /\ rm_i = 0
  /\ calls = <<>>
  /\ result = NoResult
  /\ TokenIdle

\* one iteration of the loop over the items: the record is skipped or parsed
ParseItem ==
  /\ pc = "parse"
  /\ pos < Len(items)
  /\ ~ParseRaises(items[pos + 1])
  /\ tracks' = IF IsSkipped(items[pos + 1]) THEN tracks
               ELSE Append(tracks, ParseRecord(items[pos + 1], pos))
  /\ pos' = pos + 1
  /\ UNCHANGED <<items, strict, tol_secs, pc, keep_uris, delete_uris, reps, counts, groups,
                 grouped, last>>
  /\ UNCHANGED <<clientVars, tokenVars, appVars>>

\* one iteration of the loop over the items: the exception leaves the function
ParseItemRaises ==
  /\ pc = "parse"
  /\ pos < Len(items)
  /\ ParseRaises(items[pos + 1])
  /\ pc' = "raised"
  /\ UNCHANGED <<items, strict, tol_secs, keep_uris, delete_uris, pos, reps, counts, groups,
                 grouped, last, tracks>>
  /\ UNCHANGED <<clientVars, tokenVars, appVars>>

\* the rest of group_duplicates and of compute_keep_and_delete_uris
GroupParsed ==
  /\ pc = "parse"
  /\ pos = Len(items)
  /\ LET b == Buckets(tracks, strict, Len(tracks))
         m == Merged(b, tol_secs, Len(b))
         st == ScanAll(tracks, strict, tol_secs, Len(tracks))
         cnt == CountsOf(tracks, st.first_keys, strict, tol_secs)
     IN /\ groups' = OutGroups(m, Len(m))
        /\ reps' = st
        /\ counts' = cnt
        /\ keep_uris' = KeepOf(cnt, st.keeper_by_key, Len(cnt))
        /\ delete_uris' \in DeleteOrders(DeleteSetOf(cnt, st.uris_by_key))
  /\ grouped' = TRUE
  /\ pc' = "done"
  /\ UNCHANGED <<items, strict, tol_secs, pos, last, tracks>>
  /\ UNCHANGED <<clientVars, tokenVars, appVars>>

NextRecords == ParseItem \/ ParseItemRaises \/ GroupParsed

SpecRecords == InitRecords /\ [][NextRecords]_vars

\* ------------------------------------------------ user_token_from_refresh.py
\* expires_in of an exchange response in seconds, 0 when the response omits it
ExpiresIn == {0, 20, 60}

\* int(tok.get("expires_in", 3600))
ttl(expires_in) == IF expires_in = 0 THEN DefaultExpiresIn ELSE expires_in

\* the cache test without its margin
CachedValidToExpiry(cache, t) == cache.access # 0 /\ t < cache.exp

\* _TOKEN_CACHE["access"] and now < _TOKEN_CACHE["exp"] - 30
CachedValid(cache, t) == cache.access # 0 /\ t < cache.exp - ExpiryMargin

\* a token file read without its checks
LoadRaisesNever(file) == FALSE

\* _load_refresh_token raises when the file or its refresh_token is missing
LoadRaises(file) == ~file.exists \/ file.refresh_token = 0

\* the rotated refresh token thrown away
_save_refresh_token_dropped(file, new_refresh) == file

\* _save_refresh_token: the file is read, or started empty, and written back
_save_refresh_token(file, new_refresh) == [exists |-> TRUE, refresh_token |-> new_refresh]

\* the token files a process can start with: none, one without a refresh
\* token, one with refresh token 1
TokenFiles == {NoFile, [exists |-> TRUE, refresh_token |-> 0],
               [exists |-> TRUE, refresh_token |-> 1]}

\* the tokens the accounts service issues at an exchange: new ones each time
IssuedAccess == Len(exchanges) + 1

IssuedRefresh == Len(exchanges) + 2

InitToken ==
  /\ _TOKEN_CACHE = EmptyCache
  /\ token_file \in TokenFiles
  /\ now = 0
  /\ process = 1
  /\ exchanges = <<>>
  /\ returned = NoReturn
  /\ pc = "token"
  /\ items = <<>>
  /\ strict = FALSE
  /\ tol_secs = 0
  /\ keep_uris = <<>>
  /\ delete_uris = <<>>
  /\ pos = 0
  /\ reps = NoReps
  /\ counts = <<>>
  /\ groups = <<>>
  /\ grouped = FALSE
  /\ remote = <<>>
  /\ snapshot = <<>>
  /\ url = 0
  /\ retry_counter = 0
  /\ rm_i = 0
  /\ calls = <<>>
  /\ result = NoResult
  /\ ScanIdle
  /\ AppIdle

otherVars == <<items, strict, tol_secs, pc, keep_uris, delete_uris, resolverVars,
               clientVars, scanVars>>

\* time passes until the cached token is one second short of the margin, at
\* the margin, or expired
Tick ==
  /\ \E t \in {_TOKEN_CACHE.exp - ExpiryMargin - 1, _TOKEN_CACHE.exp - ExpiryMargin,
               _TOKEN_CACHE.exp} :
       t > now /\ now' = t
  /\ UNCHANGED <<_TOKEN_CACHE, token_file, process, exchanges, returned>>
  /\ UNCHANGED otherVars
  /\ UNCHANGED appVars

\* the process ends and another starts: the cache is per process, the file stays
NewProcess ==
  /\ process < MaxProcesses
  /\ process' = process + 1
  /\ _TOKEN_CACHE' = EmptyCache
  /\ returned' = NoReturn
  /\ UNCHANGED <<token_file, now, exchanges>>
  /\ UNCHANGED otherVars
  /\ UNCHANGED appVars

\* get_user_access_token: the cached token is returned
GetCached ==
  /\ CachedValid(_TOKEN_CACHE, now)
  /\ returned' = [kind |-> "cached", token |-> _TOKEN_CACHE.access, at |-> now,
                  exchanged |-> Len(exchanges)]
  /\ UNCHANGED <<_TOKEN_CACHE, token_file, now, process, exchanges>>
  /\ UNCHANGED otherVars
  /\ UNCHANGED appVars

\* get_user_access_token: no refresh token to send, RuntimeError
LoadFails ==
  /\ ~CachedValid(_TOKEN_CACHE, now)
  /\ LoadRaises(token_file)
  /\ returned' = [kind |-> "raised", token |-> 0, at |-> now, exchanged |-> Len(exchanges)]
  /\ UNCHANGED <<_TOKEN_CACHE, token_file, now, process, exchanges>>
  /\ UNCHANGED otherVars
  /\ UNCHANGED appVars

Exchange(ok, expires_in, refresh) ==
  [sent |-> token_file.refresh_token, ok |-> ok, expires_in |-> expires_in,
   rotated |-> refresh, at |-> now, process |-> process]

\* get_user_access_token: the exchange succeeds; a rotated refresh token is
\* saved, then the cache is filled and the access token returned
ExchangeOk ==
  /\ ~CachedValid(_TOKEN_CACHE, now)
  /\ ~LoadRaises(token_file)
  /\ Len(exchanges) < MaxExchanges
  /\ \E expires_in \in ExpiresIn, refresh \in {0, IssuedRefresh} :
       /\ exchanges' = Append(exchanges, Exchange(TRUE, expires_in, refresh))
       /\ token_file' = IF refresh # 0 THEN _save_refresh_token(token_file, refresh)
                        ELSE token_file
       /\ _TOKEN_CACHE' = [access |-> IssuedAccess, exp |-> now + ttl(expires_in)]
  /\ returned' = [kind |-> "exchanged", token |-> IssuedAccess, at |-> now,
                  exchanged |-> Len(exchanges)]
  /\ UNCHANGED <<now, process>>
  /\ UNCHANGED otherVars
  /\ UNCHANGED appVars

\* get_user_access_token: the exchange is refused and raise_for_status raises
ExchangeFails ==
  /\ ~CachedValid(_TOKEN_CACHE, now)
  /\ ~LoadRaises(token_file)
  /\ Len(exchanges) < MaxExchanges
  /\ exchanges' = Append(exchanges, Exchange(FALSE, 0, 0))
  /\ returned' = [kind |-> "raised", token |-> 0, at |-> now, exchanged |-> Len(exchanges)]
  /\ UNCHANGED <<_TOKEN_CACHE, token_file, now, process>>
  /\ UNCHANGED otherVars
  /\ UNCHANGED appVars

NextToken == Tick \/ NewProcess \/ GetCached \/ LoadFails \/ ExchangeOk \/ ExchangeFails

SpecToken == InitToken /\ [][NextToken]_vars

\* ------------------------------------------- _auth_header, both token modes
\* the test of the client's cached app token left out
AppCachedNever(token) == FALSE

\* if self._app_token: a token once stored is returned, no time being read
AppCached(token) == token # 0

\* the app token the accounts service issues at an exchange
IssuedApp == Len(app_exchanges) + 1

InitAuth ==
  /\ _app_token = 0
  /\ credentials \in BOOLEAN
  /\ app_exchanges = <<>>
  /\ _TOKEN_CACHE = EmptyCache
  /\ token_file \in TokenFiles
  /\ now = 0
  /\ process = 1
  /\ exchanges = <<>>
  /\ returned = NoReturn
  /\ pc = "token"
  /\ items = <<>>
  /\ strict = FALSE
  /\ tol_secs = 0
  /\ keep_uris = <<>>
  /\ delete_uris = <<>>
  /\ pos = 0
  /\ reps = NoReps
  /\ counts = <<>>
  /\ groups = <<>>
  /\ grouped = FALSE
  /\ remote = <<>>
  /\ snapshot = <<>>
  /\ url = 0
  /\ retry_counter = 0
  /\ rm_i = 0
  /\ calls = <<>>
  /\ result = NoResult
  /\ ScanIdle

\* an hour passes between two calls
HourPasses ==
  /\ now < MaxHours * DefaultExpiresIn
  /\ now' = now + DefaultExpiresIn
  /\ UNCHANGED <<_TOKEN_CACHE, token_file, process, exchanges, returned>>
  /\ UNCHANGED otherVars
  /\ UNCHANGED appVars

\* _get_app_token: the stored token is returned
GetAppTokenCached ==
  /\ AppCached(_app_token)
  /\ returned' = [kind |-> "app_cached", token |-> _app_token, at |-> now,
                  exchanged |-> Len(app_exchanges)]
  /\ UNCHANGED <<_TOKEN_CACHE, token_file, now, process, exchanges>>
  /\ UNCHANGED otherVars
  /\ UNCHANGED appVars

\* _get_app_token: no client id or secret, RuntimeError
AppCredentialsMissing ==
  /\ ~AppCached(_app_token)
  /\ ~credentials
  /\ returned' = [kind |-> "app_raised", token |-> 0, at |-> now,
                  exchanged |-> Len(app_exchanges)]
  /\ UNCHANGED <<_TOKEN_CACHE, token_file, now, process, exchanges>>
  /\ UNCHANGED otherVars
  /\ UNCHANGED appVars

\* _get_app_token: the client-credentials exchange succeeds and its token is stored
AppExchangeOk ==
  /\ ~AppCached(_app_token)
  /\ credentials
  /\ Len(exchanges) + Len(app_exchanges) < MaxExchanges
  /\ app_exchanges' = Append(app_exchanges, [ok |-> TRUE, at |-> now, token |-> IssuedApp])
  /\ _app_token' = IssuedApp
  /\ returned' = [kind |-> "app_exchanged", token |-> IssuedApp, at |-> now,
                  exchanged |-> Len(app_exchanges)]
  /\ UNCHANGED <<_TOKEN_CACHE, token_file, now, process, exchanges, credentials>>
  /\ UNCHANGED otherVars

\* _get_app_token: the exchange is refused and raise_for_status raises
AppExchangeFails ==
  /\ ~AppCached(_app_token)
  /\ credentials
  /\ Len(exchanges) + Len(app_exchanges) < MaxExchanges
  /\ app_exchanges' = Append(app_exchanges, [ok |-> FALSE, at |-> now, token |-> 0])
  /\ returned' = [kind |-> "app_raised", token |-> 0, at |-> now,
                  exchanged |-> Len(app_exchanges)]
  /\ UNCHANGED <<_TOKEN_CACHE, token_file, now, process, exchanges, credentials, _app_token>>
  /\ UNCHANGED otherVars

NextAuth ==
  \/ HourPasses
  \/ GetAppTokenCached \/ AppCredentialsMissing \/ AppExchangeOk \/ AppExchangeFails
  \/ GetCached \/ LoadFails \/ ExchangeOk \/ ExchangeFails

SpecAuth == InitAuth /\ [][NextAuth]_vars

\* ----------------------------------------------------------------- claims
\* the tracks of the playlist and their keys
T == TracksOf(items)

Keys == LET tr == T IN [p \in 1..Len(tr) |-> make_key(tr[p], strict)]

SameSong(k, a, b) == k[a].title = k[b].title /\ k[a].artists = k[b].artists

SecDiff(k, a, b) == Abs(k[a].sec - k[b].sec)

Min(S) == CHOOSE x \in S : \A y \in S : x <= y

\* the tracks scanned so far that were assigned to representative i
Members(i) == {p \in 1..Len(reps.idx_of) : reps.idx_of[p] = i}

Creator(i) == Min(Members(i))

Occurrences(i) == Cardinality(Members(i))

NumReps == Len(reps.first_keys)

\* the representatives that existed when track p was scanned
RepsBefore(p) == Cardinality({reps.idx_of[q] : q \in 1..(p - 1)})

\* the first track of the playlist with the title and artists of track a
Anchor(k, a) == Min({n \in 1..a : SameSong(k, n, a)})

\* the positions in the playlist of the tracks of each group
GroupPositions ==
  [g \in 1..Len(groups) |->
     {groups[g].tracks[x].playlist_idx : x \in 1..Len(groups[g].tracks)}]

InSameGroup(gp, tr, a, b) ==
  \E g \in DOMAIN gp : tr[a].playlist_idx \in gp[g] /\ tr[b].playlist_idx \in gp[g]

Resolved == pc = "done" /\ grouped

\* C1 as claimed: two tracks of equal title and artists whose rounded durations
\* differ by at most the tolerance are in the same group of both functions.
C1_AsClaimed ==
  Resolved =>
    LET tr == T
        k == Keys
        gp == GroupPositions
    IN \A a, b \in 1..Len(tr) :
         (a # b /\ SameSong(k, a, b) /\ SecDiff(k, a, b) <= tol_secs)
           => (reps.idx_of[a] = reps.idx_of[b] /\ InSameGroup(gp, tr, a, b))

\* C1 amended: two tracks of equal title and artists whose rounded durations are
\* both within the tolerance of the first playlist track with that title and
\* artists are in the same group of both functions.
C1_AnchoredPairsGrouped ==
  Resolved =>
    LET tr == T
        k == Keys
        gp == GroupPositions
    IN \A a, b \in 1..Len(tr) :
         (a # b /\ SameSong(k, a, b) /\ SecDiff(k, a, Anchor(k, a)) <= tol_secs
                /\ SecDiff(k, b, Anchor(k, a)) <= tol_secs)
           => (reps.idx_of[a] = reps.idx_of[b] /\ InSameGroup(gp, tr, a, b))

C1_Witness ==
  /\ Resolved
  /\ LET tr == T
         k == Keys
         gp == GroupPositions
     IN \E a, b \in 1..Len(tr) :
          /\ a # b /\ SameSong(k, a, b) /\ SecDiff(k, a, b) > 0
          /\ SecDiff(k, a, Anchor(k, a)) <= tol_secs
          /\ SecDiff(k, b, Anchor(k, a)) <= tol_secs
          /\ reps.idx_of[a] = reps.idx_of[b] /\ InSameGroup(gp, tr, a, b)

\* the representatives, among the first n, that a track of key kp matches
MatchingReps(kp, n) ==
  {i \in 1..n : /\ reps.first_keys[i].title = kp.title
                /\ reps.first_keys[i].artists = kp.artists
                /\ Abs(kp.sec - reps.first_keys[i].sec) <= tol_secs}

\* C2: tracks are scanned in playlist order; each goes to the first
\* representative, in creation order, that it matches, a later one never being
\* chosen over an earlier one; a track that matches none becomes a new
\* representative with its own key and itself as keeper.
C2_FirstRepresentativeWins ==
  /\ Len(reps.idx_of) = pos
  /\ LET tr == T
         k == Keys
     IN \A p \in 1..pos :
          LET n == RepsBefore(p)
              m == MatchingReps(k[p], n)
          IN IF m # {}
             THEN reps.idx_of[p] = Min(m)
             ELSE /\ reps.idx_of[p] = n + 1
                  /\ reps.first_keys[n + 1] = k[p]
                  /\ reps.keeper_by_key[n + 1] = tr[p].uri

\* a track that matches two representatives, the later one closer in duration
C2_Witness ==
  LET k == Keys
  IN \E p \in 1..pos :
       LET m == MatchingReps(k[p], RepsBefore(p))
       IN /\ Cardinality(m) >= 2
          /\ reps.idx_of[p] = Min(m)
          /\ \E i \in m : Abs(k[p].sec - reps.first_keys[i].sec)
                            < Abs(k[p].sec - reps.first_keys[Min(m)].sec)

\* C3 as claimed: a representative's key is fixed at creation, and a track of
\* equal title and artists joins representative R iff it is within the
\* tolerance of R's seconds.
C3_AsClaimed ==
  LET k == Keys
  IN /\ \A i \in 1..NumReps : reps.first_keys[i] = k[Creator(i)]
     /\ \A p \in 1..pos : \A r \in 1..RepsBefore(p) :
          (reps.first_keys[r].title = k[p].title
             /\ reps.first_keys[r].artists = k[p].artists)
           => (reps.idx_of[p] = r <=> Abs(k[p].sec - reps.first_keys[r].sec) <= tol_secs)

\* C3 amended: a representative's key is the key of the track that created it
\* and never changes; a track of equal title and artists joins representative R
\* iff it is within the tolerance of R's seconds and of no earlier created
\* representative with that title and artists; every member of a group of
\* group_duplicates is within the tolerance of the group key's seconds.
C3_AnchoredAtRepresentative ==
  LET k == Keys
  IN /\ \A i \in 1..NumReps : reps.first_keys[i] = k[Creator(i)]
     /\ \A p \in 1..pos : \A r \in 1..RepsBefore(p) :
          (reps.first_keys[r].title = k[p].title
             /\ reps.first_keys[r].artists = k[p].artists)
           => (reps.idx_of[p] = r <=>
                 /\ Abs(k[p].sec - reps.first_keys[r].sec) <= tol_secs
                 /\ MatchingReps(k[p], r - 1) = {})
     /\ \A g \in 1..Len(groups) : \A x \in 1..Len(groups[g].tracks) :
          Abs(_round_seconds(groups[g].tracks[x].duration_ms) - groups[g].key.sec)
            <= tol_secs

\* a track within the tolerance of a member of a group, not of its
\* representative, and so left out of the group by both functions
C3_Witness ==
  /\ Resolved
  /\ LET tr == T
         k == Keys
         gp == GroupPositions
     IN \E p, q \in 1..Len(tr) :
          /\ q < p /\ SameSong(k, p, q) /\ SecDiff(k, p, q) <= tol_secs
          /\ q # Creator(reps.idx_of[q])
          /\ SecDiff(k, p, Creator(reps.idx_of[q])) > tol_secs
          /\ reps.idx_of[p] # reps.idx_of[q]
          /\ ~InSameGroup(gp, tr, p, q)

RECURSIVE KeepersUpTo(_, _)
KeepersUpTo(tr, n) ==
  IF n = 0 THEN <<>>
  ELSE IF Occurrences(n) > 1 THEN Append(KeepersUpTo(tr, n - 1), tr[Creator(n)].uri)
       ELSE KeepersUpTo(tr, n - 1)

UrisUnder(tr, i) == {tr[p].uri : p \in Members(i)}

\* C4: a representative with more than one occurrence gives its first
\* occurrence's URI to keep_uris and every URI of its tracks to delete_uris; a
\* representative with one occurrence gives nothing to either.
C4_KeepAndDeleteContributions ==
  pc = "done" =>
    LET tr == T
    IN /\ keep_uris = KeepersUpTo(tr, NumReps)
       /\ Range(delete_uris) =
            UNION {UrisUnder(tr, i) : i \in {j \in 1..NumReps : Occurrences(j) > 1}}

C4_Witness ==
  /\ pc = "done"
  /\ LET tr == T
     IN \E i, j \in 1..NumReps :
          /\ Occurrences(i) > 1 /\ Cardinality(UrisUnder(tr, i)) > 1
          /\ Occurrences(j) = 1 /\ UrisUnder(tr, j) \cap Range(delete_uris) = {}
          /\ keep_uris = <<tr[Creator(i)].uri>>

\* position in the playlist of the first track that carries the URI
FirstSeen(tr, u) == Min({p \in 1..Len(tr) : tr[p].uri = u})

InFirstSeenOrder(tr, s) ==
  \A i, j \in 1..Len(s) : i < j => FirstSeen(tr, s[i]) < FirstSeen(tr, s[j])

\* C5 as claimed: keep_uris and delete_uris each hold no URI twice and list
\* their URIs in the order of first encounter in the playlist.
C5_AsClaimed ==
  pc = "done" =>
    LET tr == T
    IN /\ NoDup(keep_uris) /\ InFirstSeenOrder(tr, keep_uris)
       /\ NoDup(delete_uris) /\ InFirstSeenOrder(tr, delete_uris)

\* C6 as claimed: the keeper of a duplicated representative is the URI of the
\* member with the smallest added_at, the same track as tracks[0] of the
\* corresponding group of group_duplicates.
C6_AsClaimed ==
  Resolved =>
    LET tr == T
    IN \A i \in 1..NumReps :
         Occurrences(i) > 1 =>
           /\ \E p \in Members(i) :
                /\ tr[p].uri = reps.keeper_by_key[i]
                /\ \A q \in Members(i) : tr[p].added_at <= tr[q].added_at
           /\ \E g \in 1..Len(groups) :
                /\ groups[g].key = reps.first_keys[i]
                /\ groups[g].tracks[1].playlist_idx = tr[Creator(i)].playlist_idx

\* C7 as claimed: for a duplicated representative, delete_uris holds the
\* keeper's URI when another track of the group carries it and does not hold
\* it when no other track of the group does.
C7_AsClaimed ==
  pc = "done" =>
    LET tr == T
    IN \A i \in 1..NumReps :
         Occurrences(i) > 1 =>
           LET shared == \E p \in Members(i) \ {Creator(i)} : tr[p].uri = tr[Creator(i)].uri
           IN IF shared THEN reps.keeper_by_key[i] \in Range(delete_uris)
              ELSE reps.keeper_by_key[i] \notin Range(delete_uris)

\* C7 amended: for a duplicated representative, delete_uris holds the keeper's
\* URI whether or not another track of the group carries it.
C7_KeeperAlwaysDeleted ==
  pc = "done" =>
    LET tr == T
    IN \A i \in 1..NumReps :
         Occurrences(i) > 1 =>
           /\ reps.keeper_by_key[i] = tr[Creator(i)].uri
           /\ tr[Creator(i)].uri \in Range(delete_uris)

C7_Witness ==
  /\ pc = "done"
  /\ LET tr == T
     IN \E i \in 1..NumReps :
          /\ Occurrences(i) > 1
          /\ \A p \in Members(i) \ {Creator(i)} : tr[p].uri # tr[Creator(i)].uri
          /\ tr[Creator(i)].uri \in Range(delete_uris)

\* C8: every group of group_duplicates has at least two tracks and lists them
\* by ascending added_at, the earliest added first.
C8_GroupsSortedAtLeastTwo ==
  \A g \in 1..Len(groups) :
    /\ Len(groups[g].tracks) >= 2
    /\ \A x, y \in 1..Len(groups[g].tracks) :
         x < y => groups[g].tracks[x].added_at <= groups[g].tracks[y].added_at

\* a group whose order is not the playlist order: the sort moved a track
C8_Witness ==
  /\ grouped
  /\ \E g \in 1..Len(groups) :
       /\ groups[g].tracks[1].playlist_idx > groups[g].tracks[2].playlist_idx
       /\ groups[g].tracks[1].added_at < groups[g].tracks[2].added_at

\* the playlist without the items that are no tracks
RECURSIVE OnlyTracks(_)
OnlyTracks(its) ==
  IF its = <<>> THEN <<>>
  ELSE IF Head(its).track_present /\ Head(its).type = "track"
       THEN <<Head(its)>> \o OnlyTracks(Tail(its))
       ELSE OnlyTracks(Tail(its))

\* groups as keys and member records, positions left out
Shape(gs) ==
  [g \in 1..Len(gs) |->
     [key |-> gs[g].key,
      tracks |-> [x \in 1..Len(gs[g].tracks) |->
                    [gs[g].tracks[x] EXCEPT !.playlist_idx = 0]]]]

IsRealTrack(n) == items[n].track_present /\ items[n].type = "track"

\* C9: an item that is no track, or has no track, is in no group, gives no
\* URI to keep_uris or delete_uris, and leaves the grouping of the other items
\* as it is without it.
C9_NonTracksIgnored ==
  /\ \A g \in 1..Len(groups) : \A x \in 1..Len(groups[g].tracks) :
       IsRealTrack(groups[g].tracks[x].playlist_idx + 1)
  /\ grouped => Shape(groups) = Shape(group_duplicates(OnlyTracks(items), strict, tol_secs))
  /\ \A u \in Range(keep_uris) \cup Range(delete_uris) :
       \E n \in 1..Len(items) : IsRealTrack(n) /\ items[n].uri = u
  /\ pc = "done" =>
       LET tr == TracksOf(OnlyTracks(items))
           st == ScanAll(tr, strict, tol_secs, Len(tr))
           cnt == CountsOf(tr, st.first_keys, strict, tol_secs)
       IN /\ keep_uris = KeepOf(cnt, st.keeper_by_key, Len(cnt))
          /\ Range(delete_uris) = DeleteSetOf(cnt, st.uris_by_key)

\* an episode between two copies of a track whose name, artists and duration
\* it shares
C9_Witness ==
  /\ Resolved
  /\ Len(groups) = 1 /\ Len(groups[1].tracks) = 2 /\ Len(keep_uris) = 1
  /\ \E n \in 2..(Len(items) - 1) :
       /\ items[n].track_present /\ items[n].type = "episode"
       /\ items[n - 1].type = "track" /\ items[n + 1].type = "track"
       /\ items[n].name = items[n - 1].name
       /\ items[n].duration_ms = items[n - 1].duration_ms

Mutations == {n \in 1..Len(calls) : calls[n].op \in {"DELETE", "POST"}}

\* C10 as claimed: no remove or add call is issued before the read has
\* consumed every page, duplicates are resolved over the complete item list,
\* and a failed read is followed by no mutation call.
C10_AsClaimed ==
  /\ (Mutations # {} \/ pc \in {"remove", "add", "returned", "remove_failed", "add_failed"})
       => items = snapshot
  /\ pc = "read_failed" => Mutations = {}

\* the items of the pages that precede page u
PagesBefore(u) ==
  SubSeq(snapshot, 1, IF (u - 1) * PageSize < Len(snapshot) THEN (u - 1) * PageSize
                      ELSE Len(snapshot))

\* C11 as claimed: when no response is an error, the items yielded are those of
\* the pages read, each once and in page order, and the read ends only when a
\* page has no next link, every item of the playlist having been yielded.
C11_AsClaimed ==
  (last.limited = 0 /\ pc # "failed") =>
    /\ pc = "read" => items = PagesBefore(url)
    /\ pc = "ended" => (url = 0 /\ items = snapshot)

\* C12 as claimed: the read never ends normally on a 429 response; when the
\* retries are used up it fails.
C12_AsClaimed == pc = "ended" => last.status # 429

\* C13 as claimed: after a 429 the loop has slept for the Retry-After value, 1
\* when the header is absent, and requests the same URL again, the cursor and
\* the items yielded being as they were before the response.
C13_AsClaimed ==
  last.status = 429 =>
    /\ last.slept \in {retry_timer(h) : h \in RetryHeaders}
    /\ pc = "read"
    /\ url = last.url
    /\ items = PagesBefore(url)

\* C14: a response that is neither 2xx nor 429 ends the read with an
\* exception: no request follows, the cursor stays on the failed page, and the
\* items yielded are those of the pages before it.
C14_FailsImmediately ==
  /\ last.status \in ErrorStatuses =>
       /\ pc = "failed"
       /\ url = last.url
       /\ items = PagesBefore(last.url)
  /\ pc = "failed" => (last.status \in ErrorStatuses /\ ~ENABLED NextPages)

\* a failure on a later page, after a 429 was retried
C14_Witness ==
  /\ pc = "failed"
  /\ last.url > 1
  /\ last.limited > 0
  /\ items # <<>>

\* the URI lists of the requests of one kind, in the order sent
Sent(op) ==
  LET cs == SelectSeq(calls, LAMBDA c : c.op = op)
  IN [i \in 1..Len(cs) |-> cs[i].arg]

RemoveDone == pc \in {"add", "returned", "add_failed"}

\* C15 as claimed: once clear_dupes_then_readd is past its add step, the add
\* requests sent carry every keep URI, in order, at most 100 to a request.
C15_AsClaimed ==
  pc \in {"returned", "add_failed"} =>
    /\ Concat(Sent("POST")) = keep_uris
    /\ \A i \in 1..Len(Sent("POST")) : Len(Sent("POST")[i]) <= ChunkSize

\* index of the first occurrence of a URI in a list
FirstAt(s, u) == Min({i \in 1..Len(s) : s[i] = u})

\* C16: each delete request carries between 1 and 100 URIs; over all the
\* requests no URI is sent twice, the URIs are sent in the order of their first
\* occurrence in the input, and once remove_by_uri has returned the URIs sent
\* are exactly the non-empty URIs of the input.
C16_ChunksOfUniqueUris ==
  LET dels == Sent("DELETE")
      sent == Concat(dels)
      input == Range(delete_uris) \ {""}
  IN /\ \A i \in 1..Len(dels) : 1 <= Len(dels[i]) /\ Len(dels[i]) <= ChunkSize
     /\ NoDup(sent)
     /\ Range(sent) \subseteq input
     /\ \A i \in 1..(Len(sent) - 1) :
          FirstAt(delete_uris, sent[i]) < FirstAt(delete_uris, sent[i + 1])
     /\ RemoveDone => Range(sent) = input

\* three requests for a list that holds a URI twice and an empty URI
C16_Witness ==
  /\ RemoveDone
  /\ Len(Sent("DELETE")) = 3
  /\ Len(Sent("DELETE")[3]) = 1
  /\ ~NoDup(delete_uris)
  /\ "" \in Range(delete_uris)

\* the playlist without the tracks of the URIs
Without(pl, us) == SelectSeq(pl, LAMBDA it : it.uri \notin us)

\* C17: every remove request is sent before the add request; when a remove
\* request fails nothing is sent after it, neither a remove nor an add, and the
\* playlist is the original one without the tracks of the chunks removed
\* before the failure.
C17_NoRollback ==
  /\ \A i, j \in 1..Len(calls) :
       (calls[i].op = "DELETE" /\ calls[j].op = "POST") => i < j
  /\ pc = "remove_failed" =>
       /\ calls[Len(calls)].op = "DELETE"
       /\ Sent("POST") = <<>>
       /\ ~ENABLED NextWrite
       /\ remote = Without(snapshot,
                           Range(Concat(SubSeq(Sent("DELETE"), 1, Len(calls) - 1))))

\* the second chunk fails after the first was removed
C17_Witness ==
  /\ pc = "remove_failed"
  /\ Len(calls) = 2
  /\ Len(remote) < Len(snapshot)
  /\ keep_uris # <<>>

\* C18 as claimed: whatever keys of a record are missing or hold null, the
\* loop that reads the records raises nothing, and both functions complete.
C18_AsClaimed == pc # "raised"

\* what the last call of get_user_access_token did
CallExchanged == Len(exchanges) - returned.exchanged

ServedFromCache ==
  returned.kind = "cached" =>
    /\ CallExchanged = 0
    /\ returned.token = _TOKEN_CACHE.access
    /\ returned.at < _TOKEN_CACHE.exp - ExpiryMargin

ServedByExchange ==
  returned.kind = "exchanged" =>
    /\ CallExchanged = 1
    /\ exchanges[Len(exchanges)].ok
    /\ returned.token = _TOKEN_CACHE.access
    /\ _TOKEN_CACHE.exp = returned.at + (IF exchanges[Len(exchanges)].expires_in = 0
                                         THEN DefaultExpiresIn
                                         ELSE exchanges[Len(exchanges)].expires_in)

\* a call is served from the cache exactly when a token is cached and the
\* margin not reached
CacheDecides ==
  IF _TOKEN_CACHE.access # 0 /\ now < _TOKEN_CACHE.exp - ExpiryMargin
  THEN ENABLED GetCached /\ ~ENABLED (LoadFails \/ ExchangeOk \/ ExchangeFails)
  ELSE ~ENABLED GetCached

\* C19 as claimed: a cached token short of the margin is returned without an
\* exchange; every other call makes exactly one exchange, which on success
\* fills the cache with expiry now + expires_in, 3600 by default; no token
\* returned is within 30 seconds of its recorded expiry.
C19_AsClaimed ==
  /\ ServedFromCache
  /\ ServedByExchange
  /\ CacheDecides
  /\ returned.kind = "raised" => CallExchanged = 1
  /\ returned.kind \in {"cached", "exchanged"} =>
       returned.at < _TOKEN_CACHE.exp - ExpiryMargin

\* C19 amended: a cached token short of the margin is returned without an
\* exchange; every other call makes exactly one exchange when a refresh token
\* is stored and none when it is not; a successful exchange fills the cache
\* with expiry now + expires_in, 3600 by default, and its token is returned
\* whatever its expires_in; a token returned from the cache is never within 30
\* seconds of its recorded expiry.
C19_CacheWithinMargin ==
  /\ ServedFromCache
  /\ ServedByExchange
  /\ CacheDecides
  /\ returned.kind = "raised" =>
       CallExchanged = (IF LoadRaises(token_file) THEN 0 ELSE 1)

\* a token of the default lifetime served from the cache one second short of
\* the margin, after an earlier token was exchanged at the margin
C19_Witness ==
  /\ returned.kind = "cached"
  /\ Len(exchanges) = 2
  /\ exchanges[1].expires_in = 60 /\ exchanges[2].at = exchanges[1].at + 30
  /\ exchanges[2].expires_in = 0
  /\ returned.at = exchanges[2].at + DefaultExpiresIn - ExpiryMargin - 1

\* the refresh token the store holds after an exchange
StoredAfter(e) == IF e.rotated # 0 THEN e.rotated ELSE e.sent

\* C20: after an exchange whose response carries a refresh token the store
\* holds that token, and the next exchange, in this process or a later one,
\* sends it; after an exchange whose response carries none, or that failed,
\* the store holds the token that was sent.
C20_RotatedTokenPersisted ==
  /\ exchanges # <<>> => token_file.refresh_token = StoredAfter(exchanges[Len(exchanges)])
  /\ \A n \in 1..(Len(exchanges) - 1) : exchanges[n + 1].sent = StoredAfter(exchanges[n])

\* a rotated token sent by the next process, and kept by a response without one
C20_Witness ==
  /\ Len(exchanges) = 3
  /\ exchanges[1].rotated # 0
  /\ exchanges[2].process > exchanges[1].process
  /\ exchanges[2].sent = exchanges[1].rotated
  /\ exchanges[2].ok /\ exchanges[2].rotated = 0
  /\ exchanges[3].sent = exchanges[1].rotated

\* the successful client-credentials exchanges of the client
AppSuccesses == {n \in 1..Len(app_exchanges) : app_exchanges[n].ok}

\* C21: a client makes at most one successful client-credentials exchange;
\* once it has a token no further request is sent, and every later call
\* returns that token, however much later it is made.
C21_OneAppExchange ==
  /\ Cardinality(AppSuccesses) <= 1
  /\ AppSuccesses # {} =>
       /\ AppSuccesses = {Len(app_exchanges)}
       /\ _app_token = app_exchanges[Len(app_exchanges)].token
  /\ AppSuccesses = {} => _app_token = 0
  /\ returned.kind \in {"app_cached", "app_exchanged"} =>
       /\ returned.token = _app_token
       /\ returned.token = app_exchanges[Len(app_exchanges)].token
  /\ returned.kind = "app_cached" => returned.exchanged = Len(app_exchanges)

\* the token of an exchange returned from the client two hours later
C21_Witness ==
  /\ returned.kind = "app_cached"
  /\ returned.at >= app_exchanges[Len(app_exchanges)].at + 2 * DefaultExpiresIn
  /\ Len(app_exchanges) = 2
  /\ ~app_exchanges[1].ok

\* a step that is a call of one of the two token functions
UserCall == returned' # returned /\ returned'.kind \in {"cached", "exchanged", "raised"}

AppCall == returned' # returned /\ returned'.kind \in {"app_cached", "app_exchanged", "app_raised"}

NothingSentOrStored ==
  UNCHANGED <<exchanges, app_exchanges, _TOKEN_CACHE, _app_token, token_file>>

\* C22: a call in app mode of a client without a token and without client id
\* or secret, and a call in user mode without a valid cached token and without
\* a stored refresh token, raise; no exchange request is sent and the token
\* caches and the token file are left as they were.
C22_FailsBeforeAnyRequest ==
  [][/\ (AppCall /\ _app_token = 0 /\ ~credentials) =>
          (returned'.kind = "app_raised" /\ NothingSentOrStored)
     /\ (UserCall /\ ~(_TOKEN_CACHE.access # 0 /\ now < _TOKEN_CACHE.exp - ExpiryMargin)
                  /\ (~token_file.exists \/ token_file.refresh_token = 0)) =>
          (returned'.kind = "raised" /\ NothingSentOrStored)]_vars

\* both failures: the user-mode call has raised in a client without client id
\* or secret, nothing having been sent
C22_Witness ==
  /\ returned.kind = "raised"
  /\ ~token_file.exists
  /\ ~credentials
  /\ exchanges = <<>> /\ app_exchanges = <<>>
  /\ _TOKEN_CACHE = EmptyCache /\ _app_token = 0
  /\ now > 0

\* C23: the result returned by clear_dupes_then_readd holds the number of
\* items of type track among the items read, and the lengths of the keep and
\* delete lists computed from those items.
C23_ResultCounts ==
  pc = "returned" =>
    LET tr == TracksOf(items)
        st == ScanAll(tr, strict, tol_secs, Len(tr))
        cnt == CountsOf(tr, st.first_keys, strict, tol_secs)
    IN /\ result.original = Len(OnlyTracks(items))
       /\ result.kept = Len(keep_uris)
       /\ result.removed = Len(delete_uris)
       /\ keep_uris = KeepOf(cnt, st.keeper_by_key, Len(cnt))
       /\ Range(delete_uris) = DeleteSetOf(cnt, st.uris_by_key)
       /\ NoDup(delete_uris)

\* two copies of a track about an episode: three items read, two counted
C23_Witness ==
  /\ pc = "returned"
  /\ Len(items) = 3
  /\ result = [original |-> 2, kept |-> 1, removed |-> 2]
  /\ Len(calls) = 2


\* ------------------------------------------------ the pair playlists
\* the only group there is holds both tracks of a two-track playlist
PairGrouped ==
  /\ Len(groups) = 1
  /\ {groups[1].tracks[x].playlist_idx : x \in 1..Len(groups[1].tracks)} = {0, 1}

RoundedDiff(a, b) == Abs(_round_seconds(T[a].duration_ms) - _round_seconds(T[b].duration_ms))

\* C24: for a playlist of two tracks of equal normalized title and artists,
\* group_duplicates returns one group of both tracks iff their rounded
\* durations differ by at most tol_secs, and no group otherwise.
C24_ToleranceDecides ==
  (grouped /\ Len(T) = 2 /\ SameSong(Keys, 1, 2)) =>
     IF RoundedDiff(1, 2) <= tol_secs THEN PairGrouped ELSE groups = <<>>

\* 214 s and 215 s at tolerance 1: one group
C24_Witness ==
  /\ grouped /\ Len(T) = 2 /\ SameSong(Keys, 1, 2)
  /\ T[1].duration_ms = 214000 /\ T[2].duration_ms = 215000
  /\ tol_secs = 1
  /\ PairGrouped

\* a raw title without its marker phrases and the space before each
RawMarkers == {"(feat. Drake)", "- Remastered 2012"}

Unmarked(t) ==
  LET keep == {i \in 1..Len(t) :
                 /\ t[i] \notin RawMarkers
                 /\ ~(t[i] = " " /\ i < Len(t) /\ t[i + 1] \in RawMarkers)}
      idx == SelectSeq([i \in 1..Len(t) |-> i], LAMBDA i : i \in keep)
  IN [j \in 1..Len(idx) |-> t[idx[j]]]

MarkerVariants(a, b) == a # b /\ Unmarked(a) = Unmarked(b)

\* C25: two tracks of the same artists and duration whose titles differ
\* only by a cosmetic marker form one group when strict is false and no
\* group when strict is true.
C25_MarkersGroupUnlessStrict ==
  (/\ grouped /\ Len(T) = 2
   /\ T[1].artists = T[2].artists /\ T[1].duration_ms = T[2].duration_ms
   /\ MarkerVariants(T[1].name, T[2].name)) =>
     IF strict THEN groups = <<>> ELSE PairGrouped

\* "Song" and "Song (feat. Drake)" grouped in relaxed mode
C25_Witness ==
  /\ grouped /\ Len(T) = 2 /\ ~strict
  /\ T[1].name = Song /\ T[2].name = SongFeaturing
  /\ T[1].artists = T[2].artists /\ T[1].duration_ms = T[2].duration_ms
  /\ PairGrouped

\* C26: two artist lists holding the same set of names, in any order and
\* with any repetitions, give the same normalized artist tuple, and two
\* tracks that differ only in that are grouped together.
C26_ArtistOrderIgnored ==
  grouped =>
    \A a, b \in 1..Len(T) :
      Range(T[a].artists) = Range(T[b].artists) =>
        /\ Keys[a].artists = Keys[b].artists
        /\ (Len(T) = 2 /\ a # b /\ T[a].name = T[b].name
            /\ T[a].duration_ms = T[b].duration_ms) => PairGrouped

\* ["A", "B"] and ["B", "A"] on the same song
C26_Witness ==
  /\ grouped /\ Len(T) = 2
  /\ T[1].artists = <<ArtistA, ArtistB>> /\ T[2].artists = <<ArtistB, ArtistA>>
  /\ T[1].name = T[2].name /\ T[1].duration_ms = T[2].duration_ms
  /\ PairGrouped

\* C27 as claimed: a title with CJK characters comes out of normalize_title
\* as it went in.
C27_AsClaimed ==
  grouped => \A p \in 1..Len(T) : _has_cjk(T[p].name) => Keys[p].title = T[p].name

\* the composed form of a kana title
Composed(name) == IF name = GaDecomposed THEN Ga ELSE name

\* C27: a title with CJK characters comes out of normalize_title unchanged
\* but for the composition of a kana with its combining sound mark; two
\* tracks of CJK titles with the same artists and duration are in one group
\* iff their titles are the same up to that composition.
C27_CJKPreservedUpToComposition ==
  grouped =>
    /\ \A p \in 1..Len(T) : _has_cjk(T[p].name) => Keys[p].title = Composed(T[p].name)
    /\ \A a, b \in 1..Len(T) :
         (/\ a # b /\ _has_cjk(T[a].name) /\ _has_cjk(T[b].name)
          /\ Range(T[a].artists) = Range(T[b].artists)
          /\ T[a].duration_ms = T[b].duration_ms) =>
           (InSameGroup(GroupPositions, T, a, b) <=> Composed(T[a].name) = Composed(T[b].name))

\* the decomposed and the composed title grouped, another CJK title left out
C27_Witness ==
  /\ grouped /\ Len(T) = 3
  /\ T[1].name = GaDecomposed /\ T[2].name = Ga /\ T[3].name = Anonatsu
  /\ T[1].artists = T[3].artists /\ T[2].duration_ms = T[3].duration_ms
  /\ InSameGroup(GroupPositions, T, 1, 2)
  /\ ~InSameGroup(GroupPositions, T, 1, 3)


\* ------------------------------------------- the two partitions compared
\* the representatives counted more than once, in the order of their creation
DupReps == SelectSeq([i \in 1..Len(counts) |-> i], LAMBDA i : counts[i] > 1)

GroupUris(g) == {g.tracks[x].uri : x \in 1..Len(g.tracks)}

\* C29: the groups of group_duplicates correspond one to one, in order, with
\* the representatives compute_keep_and_delete_uris counts more than once:
\* same key, same member tracks, same set of URIs; so keep_uris has one entry
\* per group and the delete URIs are the URIs of all grouped tracks.
C29_SamePartition ==
  Resolved =>
    LET d == DupReps
        gp == GroupPositions
    IN /\ Len(groups) = Len(d)
       /\ \A j \in 1..Len(d) :
            /\ groups[j].key = reps.first_keys[d[j]]
            /\ gp[j] = {T[p].playlist_idx : p \in Members(d[j])}
            /\ GroupUris(groups[j]) = reps.uris_by_key[d[j]]
            /\ Len(groups[j].tracks) = counts[d[j]]
       /\ Len(keep_uris) = Len(groups)
       /\ Range(delete_uris) = UNION {GroupUris(groups[j]) : j \in 1..Len(groups)}

\* a group that the tolerance merged from tracks of different seconds, beside
\* a representative that stayed single
C29_Witness ==
  /\ Resolved
  /\ Len(groups) = 1 /\ NumReps = 2
  /\ \E x, y \in 1..Len(groups[1].tracks) :
       /\ groups[1].tracks[x].duration_ms # groups[1].tracks[y].duration_ms
       /\ groups[1].tracks[x].uri # groups[1].tracks[y].uri


\* ------------------------------------------------- the run as a whole
\* what compute_keep_and_delete_uris finds on a playlist read in full
KeepAndDelete(pl) ==
  LET tr == TracksOf(pl)
      st == ScanAll(tr, strict, tol_secs, Len(tr))
      cnt == CountsOf(tr, st.first_keys, strict, tol_secs)
  IN [keep |-> KeepOf(cnt, st.keeper_by_key, Len(cnt)),
      delete |-> DeleteSetOf(cnt, st.uris_by_key)]

\* C28 as claimed: after a run that removed, added and returned, a second run
\* that reads the playlist as the first left it finds no representative with
\* more than one occurrence: nothing to keep, nothing to delete.
C28_AsClaimed ==
  (pc = "returned" /\ Sent("DELETE") # <<>> /\ Sent("POST") # <<>>) =>
    LET second == KeepAndDelete(remote)
    IN second.keep = <<>> /\ second.delete = {}

UriCount(pl, u) == Cardinality({n \in 1..Len(pl) : pl[n].uri = u})

Outside(pl, us) == SelectSeq(pl, LAMBDA it : it.uri \notin us)

=============================================================================
